---- MODULE Spec2Model ----
(***************************************************************************)
(* Random-walk agents of randwalk/__init__.py: the Bloom filter, the base  *)
(* agent SRW (construction, pick_next, move_to, advance) and the policy    *)
(* classes that override weight, pick_next or move_to.                     *)
(*                                                                         *)
(* Weights are kept as integers, in units of EPS (1e-4): EPS is 1 and the  *)
(* weight 1 of SRW.weight is 10000.  random.random() and laziness are kept *)
(* in hundredths.                                                          *)
(***************************************************************************)
EXTENDS Integers, Sequences, FiniteSets, TLC

\* ---------------------------------------------------------------- bounds
\* advance()/move_to() calls made on one agent
MaxStep == 4
\* move_to()/advance() calls made on an agent the driver also moves directly
MaxMoves == 3
\* advance() calls made on the agent of the ring of five vertices
MaxRingStep == 7
\* largest hist_size given to a k-History agent
MaxHist == 2
\* largest bf_size given to a Bloom filter
MaxBits == 3
\* keys 1..MaxKey given to a stand-alone Bloom filter
MaxKey == 2
\* hash(str(key)) ranges over -MaxDigest..MaxDigest for a stand-alone Bloom filter
MaxDigest == 13

\* ------------------------------------------------------------- constants
\* EPS = 1e-4, the unit of every weight of the model
EPS == 1
\* the value of an attribute that holds None or was never assigned
Unset == -1
\* the outcome of pick_next when one of its assert statements fails
AssertionError == -2

VARIABLES
    cls,        \* type(self).__name__
    graph,      \* self.graph: vertex |-> graph.neighbors(vertex), a list
    alpha,      \* self.alpha, in halves (-1 is the default -.5)
    laziness,   \* self.laziness, in hundredths
    hist_size,  \* self.hist_size
    digest,     \* key |-> hash(str(key)), fixed for one run of the interpreter
    current,    \* self.current
    path,       \* self.path
    step,       \* self.step
    nvisits,    \* self.nvisits
    ncovered,   \* self.ncovered
    hitting,    \* self.hitting, a function on the keys assigned so far
    bf,         \* self.bf: [size, bitarray]
    history,    \* self.history
    status      \* "ok", or the exception that ended the run

vars == <<cls, graph, alpha, laziness, hist_size, digest, current, path, step,
          nvisits, ncovered, hitting, bf, history, status>>

config == <<cls, graph, alpha, laziness, hist_size, digest>>

\* --------------------------------------------------------------- helpers
Range(s) == {s[i] : i \in DOMAIN s}

EmptyFn == [x \in {} |-> 0]

\* ---------------------------------------------------------- Bloom filter
BloomFilter_init(size) == [size |-> size, bitarray |-> [n \in 0..(size - 1) |-> 0]]

\* Python's // and % on integers, for a divisor of either sign (not 0)
floordiv(a, b) == IF b > 0 THEN a \div b ELSE (-a) \div (-b)

mod(a, b) == a - b * floordiv(a, b)

hashes(size, key) ==
    LET d == digest[key]
    IN  <<mod(d, size), mod(floordiv(d, size), size),
          mod(floordiv(floordiv(d, size), size), size)>>

\* self.bitarray[n] exists: a list of length len takes the indices -len..len-1
valid_index(b, n) ==
    LET len == IF b.size > 0 THEN b.size ELSE 0
    IN  -len <= n /\ n < len

\* the exception add(key) or query(key) ends with, "ok" if none
BloomFilter_error(b, key) ==
    IF b.size = 0 THEN "ZeroDivisionError"
    ELSE IF \E n \in Range(hashes(b.size, key)) : ~valid_index(b, n) THEN "IndexError"
    ELSE "ok"

\* faulty add: the third hash is not set
BloomFilter_add_two(b, key) ==
    LET hs == hashes(b.size, key)
    IN  [b EXCEPT !.bitarray = [n \in DOMAIN @ |-> IF n \in {hs[1], hs[2]} THEN 1 ELSE @[n]]]

BloomFilter_add(b, key) ==
    LET hs == hashes(b.size, key)
    IN  [b EXCEPT !.bitarray = [n \in DOMAIN @ |-> IF n \in Range(hs) THEN 1 ELSE @[n]]]

BloomFilter_query(b, key) ==
    \A n \in Range(hashes(b.size, key)) : b.bitarray[n] = 1

\* ------------------------------------------------------- history buffer
\* collections.deque(maxlen=maxlen).append(v)
deque_append(h, maxlen, v) ==
    IF maxlen = 0 THEN h
    ELSE IF Len(h) = maxlen THEN Append(Tail(h), v)
    ELSE Append(h, v)

\* collections.deque.remove(v): the first occurrence of v is removed
RECURSIVE deque_remove(_, _)
deque_remove(h, v) ==
    IF h = <<>> THEN <<>>
    ELSE IF Head(h) = v THEN Tail(h)
    ELSE <<Head(h)>> \o deque_remove(Tail(h), v)

\* ----------------------------------------------------------------- agent
\* the agent's mutable attributes, as one record
Agent ==
    [current |-> current, path |-> path, step |-> step, nvisits |-> nvisits,
     ncovered |-> ncovered, hitting |-> hitting, bf |-> bf, history |-> history]

Becomes(a) ==
    /\ current' = a.current
    /\ path' = a.path
    /\ step' = a.step
    /\ nvisits' = a.nvisits
    /\ ncovered' = a.ncovered
    /\ hitting' = a.hitting
    /\ bf' = a.bf
    /\ history' = a.history

prev_vertex(a) == IF Len(a.path) >= 2 THEN a.path[Len(a.path) - 1] ELSE Unset

degree(v) == Len(graph[v])

has_edge(u, v) == u \in DOMAIN graph /\ v \in Range(graph[u])

\* dv**self.alpha in units of EPS, for alpha 0 and -.5
DegPow(dv) ==
    IF alpha = 0 THEN 10000
    ELSE <<10000, 7071, 5773, 5000, 4472>>[dv]

SRW_weight(a, u, v) == 10000

BiasedRW_weight(a, u, v) == (SRW_weight(a, u, v) * DegPow(degree(v))) \div 10000

\* faulty NBRW.weight: the previous vertex gets no weight at all
NBRW_weight_zero(a, u, v) ==
    IF v = prev_vertex(a) THEN 0 ELSE BiasedRW_weight(a, u, v)

NBRW_weight(a, u, v) ==
    IF v = prev_vertex(a) THEN EPS ELSE BiasedRW_weight(a, u, v)

\* faulty SARW.weight: a visited vertex gets no weight at all
SARW_weight_zero(a, u, v) ==
    IF a.nvisits[v] /= 0 THEN 0 ELSE BiasedRW_weight(a, u, v)

SARW_weight(a, u, v) ==
    IF a.nvisits[v] /= 0 THEN EPS ELSE BiasedRW_weight(a, u, v)

BloomRW_weight(a, u, v) ==
    IF BloomFilter_query(a.bf, v) THEN EPS ELSE BiasedRW_weight(a, u, v)

VARW_weight(a, u, v) ==
    LET t == prev_vertex(a)
    IN  IF t /= Unset /\ t /= 0 /\ has_edge(t, v) THEN EPS ELSE NBRW_weight(a, u, v)

\* faulty HybridRW.weight: the neighbors of the previous vertex are not avoided
HybridRW_weight_near(a, u, v) ==
    IF v = prev_vertex(a) THEN EPS
    ELSE IF BloomFilter_query(a.bf, v) THEN EPS
    ELSE DegPow(degree(v))

HybridRW_weight(a, u, v) ==
    LET t == prev_vertex(a)
    IN  IF v = t THEN EPS
        ELSE IF t /= Unset /\ t /= 0 /\ has_edge(t, v) THEN EPS
        ELSE IF BloomFilter_query(a.bf, v) THEN EPS
        ELSE DegPow(degree(v))

\* faulty kHistory.weight: a vertex of the history gets no weight at all
kHistory_weight_zero(a, u, v) ==
    IF v \in Range(a.history) THEN 0 ELSE BiasedRW_weight(a, u, v)

kHistory_weight(a, u, v) ==
    IF v \in Range(a.history) THEN EPS ELSE BiasedRW_weight(a, u, v)

weight(a, u, v) ==
    CASE cls \in {"SRW", "LZRW"} -> SRW_weight(a, u, v)
      [] cls = "BiasedRW" -> BiasedRW_weight(a, u, v)
      [] cls = "NBRW" -> NBRW_weight(a, u, v)
      [] cls = "SARW" -> SARW_weight(a, u, v)
      [] cls = "BloomRW" -> BloomRW_weight(a, u, v)
      [] cls = "VARW" -> VARW_weight(a, u, v)
      [] cls = "HybridRW" -> HybridRW_weight(a, u, v)
      [] cls \in {"kHistory", "kHistory_FIFO", "kHistory_LRU"} -> kHistory_weight(a, u, v)

\* accum after the first i neighbors of the scan of pick_next
RECURSIVE Accum(_, _, _)
Accum(a, u, i) ==
    IF i = 0 THEN 0 ELSE Accum(a, u, i - 1) + weight(a, u, graph[u][i])

\* faulty pick_next: any vertex of the graph can be returned
SRW_pick_next_anywhere(a, u) == DOMAIN graph

\* What SRW.pick_next(u) can return: neighbor i is returned for a chosen in
\* [accum before i, accum after i), chosen being drawn from [0, total);
\* AssertionError stands for a failed assert.
SRW_pick_next(a, u) ==
    LET neighbors == graph[u]
        total == Accum(a, u, Len(neighbors))
    IN  IF neighbors = <<>> THEN {AssertionError}
        ELSE {neighbors[i] : i \in {j \in DOMAIN neighbors : Accum(a, u, j - 1) < Accum(a, u, j)}}
             \cup (IF total = 0 THEN {AssertionError} ELSE {})

\* the values of random.random(), in hundredths: [0, 1)
RandomVals == {0, 50, 99}

\* faulty test of LZRW.pick_next: the comparison is inverted
LZRW_stays_inverted(r) == r > laziness

LZRW_stays(r) == r <= laziness

LZRW_pick_next(a, u) ==
    UNION {IF LZRW_stays(r) THEN {u} ELSE SRW_pick_next(a, u) : r \in RandomVals}

pick_next(a) ==
    IF cls = "LZRW" THEN LZRW_pick_next(a, a.current) ELSE SRW_pick_next(a, a.current)

\* faulty move_to: hitting[v] is written at every visit
SRW_move_to_rewrite(a, v) ==
    [a EXCEPT !.current = v,
              !.path = Append(@, v),
              !.hitting = (v :> a.step) @@ @,
              !.ncovered = IF a.nvisits[v] = 0 THEN @ + 1 ELSE @,
              !.nvisits[v] = @ + 1]

\* faulty move_to: ncovered is incremented at every visit
SRW_move_to_recount(a, v) ==
    [a EXCEPT !.current = v,
              !.path = Append(@, v),
              !.hitting = IF a.nvisits[v] = 0 THEN (v :> a.step) @@ @ ELSE @,
              !.ncovered = @ + 1,
              !.nvisits[v] = @ + 1]

SRW_move_to(a, v) ==
    [a EXCEPT !.current = v,
              !.path = Append(@, v),
              !.hitting = IF a.nvisits[v] = 0 THEN (v :> a.step) @@ @ ELSE @,
              !.ncovered = IF a.nvisits[v] = 0 THEN @ + 1 ELSE @,
              !.nvisits[v] = @ + 1]

\* faulty BloomRW.move_to: the vertex is not put into the filter
BloomRW_move_to_unfiltered(a, v) == SRW_move_to(a, v)

BloomRW_move_to(a, v) ==
    [SRW_move_to(a, v) EXCEPT !.bf = BloomFilter_add(@, v)]

\* faulty kHistory.move_to: a vertex already in the buffer is not appended
kHistory_move_to_distinct(a, v) ==
    [SRW_move_to(a, v) EXCEPT
        !.history = IF v \notin Range(@) THEN deque_append(@, hist_size, v) ELSE @]

kHistory_move_to(a, v) ==
    [SRW_move_to(a, v) EXCEPT !.history = deque_append(@, hist_size, v)]

\* faulty kHistory_FIFO.move_to: appendleft, the newest entry is flushed
kHistory_FIFO_move_to_front(a, v) ==
    [SRW_move_to(a, v) EXCEPT
        !.history = IF v \notin Range(@)
                    THEN (IF hist_size = 0 THEN @
                          ELSE IF Len(@) = hist_size THEN <<v>> \o SubSeq(@, 1, Len(@) - 1)
                          ELSE <<v>> \o @)
                    ELSE @]

\* faulty kHistory_FIFO.move_to: the vertex is appended even when present
kHistory_FIFO_move_to_plain(a, v) ==
    [SRW_move_to(a, v) EXCEPT !.history = deque_append(@, hist_size, v)]

kHistory_FIFO_move_to(a, v) ==
    [SRW_move_to(a, v) EXCEPT
        !.history = IF v \notin Range(@) THEN deque_append(@, hist_size, v) ELSE @]

\* faulty kHistory_LRU.move_to: the earlier occurrence is not removed
kHistory_LRU_move_to_keep(a, v) ==
    [SRW_move_to(a, v) EXCEPT !.history = deque_append(@, hist_size, v)]

\* faulty kHistory_LRU.move_to: runs on top of kHistory.move_to, which has
\* already appended the vertex
kHistory_LRU_move_to_super(a, v) ==
    LET h == kHistory_move_to(a, v).history
    IN  [kHistory_move_to(a, v) EXCEPT
            !.history = deque_append(IF v \in Range(h) THEN deque_remove(h, v) ELSE h,
                                     hist_size, v)]

\* faulty kHistory_LRU.move_to: the buffer has no maxlen
kHistory_LRU_move_to_unbounded(a, v) ==
    [SRW_move_to(a, v) EXCEPT
        !.history = Append(IF v \in Range(@) THEN deque_remove(@, v) ELSE @, v)]

kHistory_LRU_move_to(a, v) ==
    [SRW_move_to(a, v) EXCEPT
        !.history = deque_append(IF v \in Range(@) THEN deque_remove(@, v) ELSE @,
                                 hist_size, v)]

move_to(a, v) ==
    CASE cls \in {"BloomRW", "HybridRW"} -> BloomRW_move_to(a, v)
      [] cls = "kHistory" -> kHistory_move_to(a, v)
      [] cls = "kHistory_FIFO" -> kHistory_FIFO_move_to(a, v)
      [] cls = "kHistory_LRU" -> kHistory_LRU_move_to(a, v)
      [] OTHER -> SRW_move_to(a, v)

\* faulty advance: step is not incremented
advance_uncounted(a, v) == move_to(a, v)

\* advance() once pick_next has returned v
advance(a, v) == [move_to(a, v) EXCEPT !.step = @ + 1]

\* ---------------------------------------------------------- construction
\* the attributes set before the initial placement
New(g, size) ==
    [current |-> Unset, path |-> <<>>, step |-> 0, nvisits |-> [v \in DOMAIN g |-> 0],
     ncovered |-> 0, hitting |-> EmptyFn, bf |-> BloomFilter_init(size), history |-> <<>>]

\* SRW.__init__: "if current: self.move_to(current)"
SRW_init(a, start) ==
    IF start /= Unset /\ start /= 0 THEN move_to(a, start) ELSE a

\* ---------------------------------------------------------------- inputs
\* the path 1-2-3
PathGraph == <<<<2>>, <<1, 3>>, <<2>>>>

\* the triangle 1-2-3 with the pendant vertex 4 on 3
KiteGraph == <<<<2, 3>>, <<1, 3>>, <<1, 2, 4>>, <<3>>>>

\* the edge 1-2 and the isolated vertex 3
IsolatedGraph == <<<<2>>, <<1>>, <<>>>>

Graphs == {PathGraph, KiteGraph, IsolatedGraph}

\* the ring of five vertices base, base+1, ..., base+4
Ring5(base) ==
    [v \in base..(base + 4) |-> <<base + ((v - base + 4) % 5), base + ((v - base + 1) % 5)>>]

Kinds ==
    {"SRW", "BiasedRW", "NBRW", "SARW", "BloomRW", "VARW", "LZRW", "HybridRW",
     "kHistory", "kHistory_FIFO", "kHistory_LRU"}

\* the classes whose weight discourages some neighbors
AvoidanceKinds ==
    {"NBRW", "SARW", "BloomRW", "VARW", "HybridRW", "kHistory", "kHistory_FIFO", "kHistory_LRU"}

BloomKinds == {"BloomRW", "HybridRW"}

HistoryKinds == {"kHistory", "kHistory_FIFO", "kHistory_LRU"}

\* values of hash(str(v)) tried for the vertices of a walk
WalkDigests == {-3, 4}

\* the agent's mutable attributes are those of record a
Holds(a) ==
    /\ current = a.current
    /\ path = a.path
    /\ step = a.step
    /\ nvisits = a.nvisits
    /\ ncovered = a.ncovered
    /\ hitting = a.hitting
    /\ bf = a.bf
    /\ history = a.history

\* cls(graph=g, current=start, ...) for a graph with vertices 1..N
Init ==
    /\ cls \in Kinds
    /\ graph \in Graphs
    /\ alpha \in (IF cls \in {"SRW", "LZRW"} THEN {0} ELSE {-1, 0})
    /\ laziness \in (IF cls = "LZRW" THEN {0, 50, 100} ELSE {0})
    /\ hist_size \in (IF cls \in HistoryKinds THEN 0..MaxHist ELSE {0})
    /\ digest \in (IF cls \in BloomKinds THEN [DOMAIN graph -> WalkDigests]
                   ELSE {[v \in DOMAIN graph |-> 0]})
    /\ status = "ok"
    /\ \E size \in (IF cls \in BloomKinds THEN 1..MaxBits ELSE {0}), start \in DOMAIN graph :
           Holds(SRW_init(New(graph, size), start))

\* --------------------------------------------------------------- actions
\* advance(): pick_next returns a vertex
AdvanceOk(limit) ==
    /\ status = "ok"
    /\ current /= Unset
    /\ Len(path) <= limit
    /\ \E v \in pick_next(Agent) \ {AssertionError} : Becomes(advance(Agent, v))
    /\ UNCHANGED <<config, status>>

\* faulty advance(): step is incremented although pick_next raised
AdvanceAssert_counted ==
    /\ status = "ok"
    /\ current /= Unset
    /\ AssertionError \in pick_next(Agent)
    /\ status' = "AssertionError"
    /\ step' = step + 1
    /\ UNCHANGED <<config, current, path, nvisits, ncovered, hitting, bf, history>>

\* advance(): an assert of pick_next fails, the exception reaches the caller
AdvanceAssert ==
    /\ status = "ok"
    /\ current /= Unset
    /\ AssertionError \in pick_next(Agent)
    /\ status' = "AssertionError"
    /\ UNCHANGED <<config, current, path, step, nvisits, ncovered, hitting, bf, history>>

\* advance() on an agent that was never placed: self.current does not exist
AdvanceNoCurrent ==
    /\ status = "ok"
    /\ current = Unset
    /\ status' = "AttributeError"
    /\ UNCHANGED <<config, current, path, step, nvisits, ncovered, hitting, bf, history>>

\* move_to(v) called by the driver
MoveTo(limit) ==
    /\ status = "ok"
    /\ Len(path) <= limit
    /\ \E v \in DOMAIN graph : Becomes(move_to(Agent, v))
    /\ UNCHANGED <<config, status>>

Next == AdvanceOk(MaxStep) \/ AdvanceAssert

Spec == Init /\ [][Next]_vars

NextMove == AdvanceOk(MaxMoves) \/ AdvanceAssert \/ MoveTo(MaxMoves)

SpecMove == Init /\ [][NextMove]_vars

\* ------------------------------------------- sizes of either sign, any start
\* kHistory.__init__: collections.deque(maxlen=hist_size) raises ValueError
deque_error(maxlen) == IF maxlen < 0 THEN "ValueError" ELSE "ok"

\* the exception the constructor ends with, "ok" if none; the initial
\* placement calls bf.add(start) after the base bookkeeping
init_error(a, start) ==
    IF cls \in HistoryKinds /\ deque_error(hist_size) /= "ok" THEN deque_error(hist_size)
    ELSE IF cls \in BloomKinds /\ start /= Unset /\ start /= 0
         THEN BloomFilter_error(a.bf, start)
    ELSE "ok"

\* cls(graph=g, current=start, bf_size=size, hist_size=hist_size) for the
\* classes that take a size; start is Unset when no start vertex is given
InitConfig ==
    /\ cls \in BloomKinds \cup HistoryKinds
    /\ graph \in Graphs
    /\ alpha = -1
    /\ laziness = 0
    /\ hist_size \in (IF cls \in HistoryKinds THEN (-MaxHist)..MaxHist ELSE {0})
    /\ digest \in (IF cls \in BloomKinds THEN [DOMAIN graph -> WalkDigests]
                   ELSE {[v \in DOMAIN graph |-> 0]})
    /\ \E size \in (IF cls \in BloomKinds THEN (-MaxBits)..MaxBits ELSE {0}),
          start \in DOMAIN graph \cup {Unset} :
           LET a == New(graph, size)
               e == init_error(a, start)
           IN  /\ status = e
               /\ Holds(IF e = "ok" THEN SRW_init(a, start)
                        ELSE IF cls \in HistoryKinds THEN a
                        ELSE SRW_move_to(a, start))

\* move_to(v) called by the driver: bf.add(v) raises after the base bookkeeping
MoveToRaises ==
    /\ status = "ok"
    /\ cls \in BloomKinds
    /\ \E v \in DOMAIN graph :
           /\ BloomFilter_error(bf, v) /= "ok"
           /\ status' = BloomFilter_error(bf, v)
           /\ Becomes(SRW_move_to(Agent, v))
    /\ UNCHANGED config

\* move_to(v) called by the driver, no exception
MoveToOk(limit) ==
    /\ cls \in BloomKinds => \A v \in DOMAIN graph : BloomFilter_error(bf, v) = "ok"
    /\ MoveTo(limit)

NextConfig ==
    \/ AdvanceOk(MaxMoves)
    \/ AdvanceAssert
    \/ AdvanceNoCurrent
    \/ MoveToOk(MaxMoves)
    \/ MoveToRaises

SpecConfig == InitConfig /\ [][NextConfig]_vars

\* ------------------------------------------------- stand-alone Bloom filter
Keys == 1..MaxKey

\* BloomFilter(size) on its own; no agent exists
InitBloom ==
    /\ cls = "BloomFilter"
    /\ graph = EmptyFn
    /\ alpha = 0
    /\ laziness = 0
    /\ hist_size = 0
    /\ digest \in [Keys -> (-MaxDigest)..MaxDigest]
    /\ status = "ok"
    /\ \E size \in 1..MaxBits : Holds(New(EmptyFn, size))

\* bf.add(key)
BloomAdd ==
    /\ \E key \in Keys : bf' = BloomFilter_add(bf, key)
    /\ UNCHANGED <<config, current, path, step, nvisits, ncovered, hitting, history, status>>

NextBloom == BloomAdd

SpecBloom == InitBloom /\ [][NextBloom]_vars

\* ------------------------------------------------- the ring of five vertices
\* SRW(graph=ring, current=base), the ring being base, ..., base+4
InitRing ==
    /\ cls = "SRW"
    /\ alpha = 0
    /\ laziness = 0
    /\ hist_size = 0
    /\ status = "ok"
    /\ \E base \in {0, 1} :
           /\ graph = Ring5(base)
           /\ digest = [v \in DOMAIN graph |-> 0]
           /\ Holds(SRW_init(New(graph, 0), base))

NextRing == AdvanceOk(MaxRingStep) \/ AdvanceNoCurrent

\* The driver's loop calls advance() again and again, and random.uniform gives
\* every neighbor a positive probability at every visit of a vertex: a vertex
\* that can be picked again and again is picked.
FairSpecRing ==
    /\ InitRing
    /\ [][NextRing]_vars
    /\ WF_vars(NextRing)
    /\ \A v \in 0..5 : SF_vars(AdvanceOk(MaxRingStep) /\ current' = v)

\* ---------------------------------------------------------------- claims
\* the index of the first occurrence of v in list s, counted from 0
FirstIndex(s, v) == (CHOOSE i \in DOMAIN s : s[i] = v /\ \A j \in 1..(i - 1) : s[j] /= v) - 1

\* list s without its entries equal to v
RECURSIVE Without(_, _)
Without(s, v) ==
    IF s = <<>> THEN <<>>
    ELSE IF Head(s) = v THEN Without(Tail(s), v)
    ELSE <<Head(s)>> \o Without(Tail(s), v)

\* the last n entries of list s
LastN(s, n) == SubSeq(s, Len(s) - n + 1, Len(s))

\* self.hitting[v] as the driver reads it: a defaultdict(int)
HittingRead(v) == IF v \in DOMAIN hitting THEN hitting[v] ELSE 0

\* C1: for every policy class, after construction with a start vertex and after
\* any number of advance() calls, step equals len(path) - 1.
C1_StepIsPathLenMinusOne == step = Len(path) - 1

C1_Witness == status = "ok" /\ step >= 3 /\ Len(path) = step + 1

\* C2: for every visited vertex v, hitting[v] is the number of steps the walk
\* took to reach v for the first time: the index of the first occurrence of v
\* in path, 0 for the start vertex.
C2_HittingIsFirstIndex ==
    \A v \in Range(path) : v \in DOMAIN hitting /\ hitting[v] = FirstIndex(path, v)

\* C3: hitting[v] is written exactly once, by the move_to(v) that takes
\* nvisits[v] from 0 to 1; no later advance() or move_to() changes it.
C3_HittingSetOnce ==
    [][/\ \A v \in DOMAIN hitting : v \in DOMAIN hitting' /\ hitting'[v] = hitting[v]
       /\ \A v \in DOMAIN graph :
              (v \in DOMAIN hitting' /\ v \notin DOMAIN hitting)
                  <=> (nvisits[v] = 0 /\ nvisits'[v] = 1)]_vars

C3_Witness ==
    \E v \in DOMAIN hitting :
        nvisits[v] >= 2 /\ path[Len(path)] = v /\ step > hitting[v] + 1

\* C4: in every state reached through construction, advance() and move_to(),
\* ncovered is the number of distinct vertices of path and the number of keys
\* of hitting.
C4_CoveredCount ==
    /\ ncovered = Cardinality(Range(path))
    /\ ncovered = Cardinality(DOMAIN hitting)

C4_Witness == ncovered >= 2 /\ Len(path) > ncovered

\* C5: the filter has no false negative: query(k) is true right after add(k),
\* and a key whose query is true keeps it true under every later add().
C5_NoFalseNegative ==
    [][/\ \A k \in Keys : bf' = BloomFilter_add(bf, k) => BloomFilter_query(bf', k)
       /\ \A k \in Keys : BloomFilter_query(bf, k) => BloomFilter_query(bf', k)]_vars

C5_Witness ==
    \E k \in Keys : \E j \in Keys :
        /\ BloomFilter_query(bf, k) /\ BloomFilter_query(bf, j)
        /\ ~(Range(hashes(bf.size, k)) \subseteq Range(hashes(bf.size, j)))
        /\ ~(Range(hashes(bf.size, j)) \subseteq Range(hashes(bf.size, k)))

\* C6: for every policy class, advance() at a vertex without neighbors fails:
\* the run is aborted and no further step is taken.
C6_IsolatedIsFatal ==
    [][(status = "ok" /\ current /= Unset /\ graph[current] = <<>>)
          => (status' = "AssertionError" /\ step' = step /\ path' = path)]_vars

\* C7: on the ring 0-1-2-3-4-0 with an SRW agent constructed with start vertex
\* 0, hitting[0] is 0 after construction and repeated advance() calls, under
\* fair choice of neighbors, eventually bring ncovered to 5.
C7_RingZeroCovers ==
    (cls = "SRW" /\ graph = Ring5(0)) => (HittingRead(0) = 0 /\ <>(ncovered = 5))

\* C8: an LZRW agent with laziness 1.0 keeps current in every advance(), step
\* grows by exactly 1 in every advance(), and ncovered stays 1.
C8_FullyLazyStays ==
    [][(cls = "LZRW" /\ laziness = 100)
          => (/\ current' = current
              /\ step' = step + 1
              /\ ncovered = 1 /\ ncovered' = 1
              /\ status' = "ok")]_vars

C8_Witness ==
    cls = "LZRW" /\ laziness = 100 /\ step >= 3 /\ graph[current] /= <<>>

\* C9: a kHistory_FIFO agent with hist_size k >= 1 that has moved through more
\* than k pairwise distinct vertices holds exactly the last k of them in its
\* history, in the order of insertion.
C9_FifoKeepsLastK ==
    (/\ cls = "kHistory_FIFO"
     /\ hist_size >= 1
     /\ Len(path) > hist_size
     /\ Cardinality(Range(path)) = Len(path))
        => history = LastN(path, hist_size)

C9_Witness ==
    /\ cls = "kHistory_FIFO"
    /\ hist_size >= 2
    /\ Len(path) >= hist_size + 2
    /\ Cardinality(Range(path)) = Len(path)

C11_NegativeSizeFailsAtConstruction ==
    ((cls \in BloomKinds /\ bf.size < 0) \/ (cls \in HistoryKinds /\ hist_size < 0))
        => status /= "ok"

\* C12: for every avoidance policy, whenever the current vertex has a neighbor,
\* every neighbor has a weight of at least EPS, the total weight is positive,
\* and pick_next returns a neighbor and never fails, also when every neighbor
\* is discouraged at once.
C12_DiscouragedStaysPossible ==
    (cls \in AvoidanceKinds /\ status = "ok" /\ current /= Unset /\ graph[current] /= <<>>)
        => /\ \A i \in DOMAIN graph[current] : weight(Agent, current, graph[current][i]) >= EPS
           /\ Accum(Agent, current, Len(graph[current])) > 0
           /\ pick_next(Agent) /= {}
           /\ pick_next(Agent) \subseteq Range(graph[current])

\* an NBRW agent has advanced out of a degree-1 vertex, back to the only
\* neighbor, which was the previous vertex and so discouraged
C12_Witness ==
    /\ cls = "NBRW"
    /\ status = "ok"
    /\ Len(path) >= 3
    /\ degree(path[Len(path) - 1]) = 1
    /\ path[Len(path)] = path[Len(path) - 2]
    /\ weight(Agent, current, path[Len(path) - 1]) = EPS

\* the vertex SARW (already visited) and NBRW (the previous vertex) avoid
Forbidden(v) ==
    IF cls = "SARW" THEN nvisits[v] /= 0 ELSE v = prev_vertex(Agent)

\* the current vertex has a forbidden neighbor and a neighbor that is not
HasAlternative ==
    /\ cls \in {"SARW", "NBRW"}
    /\ status = "ok"
    /\ current /= Unset
    /\ \E v \in Range(graph[current]) : Forbidden(v)
    /\ \E v \in Range(graph[current]) : ~Forbidden(v)

\* C13 as stated: an advance() of SARW or NBRW from a state where the current
\* vertex has a non-discouraged neighbor never moves to the forbidden vertex.
C13_NeverPicksForbidden ==
    [][(HasAlternative /\ path' /= path) => ~Forbidden(current')]_vars

\* C13 amended: in such a state the forbidden neighbor keeps the weight EPS, so
\* pick_next can still return it (chosen falling in its interval of length
\* EPS); every other neighbor has its BiasedRW weight, which is larger than EPS.
C13_ForbiddenKeepsEps ==
    HasAlternative =>
        \A v \in Range(graph[current]) :
            IF Forbidden(v)
            THEN weight(Agent, current, v) = EPS /\ v \in pick_next(Agent)
            ELSE /\ weight(Agent, current, v) = BiasedRW_weight(Agent, current, v)
                 /\ weight(Agent, current, v) > EPS

\* an NBRW agent has advanced back to the previous vertex from a vertex that
\* had other neighbors
C13_Witness ==
    /\ cls = "NBRW"
    /\ status = "ok"
    /\ Len(path) >= 3
    /\ degree(path[Len(path) - 1]) >= 2
    /\ path[Len(path)] = path[Len(path) - 2]

\* C14: for BloomRW and HybridRW every vertex of path, the start vertex
\* included, is reported by the filter, so every visited neighbor of the
\* current vertex has the weight EPS.
C14_PathIsInFilter ==
    (cls \in BloomKinds /\ status = "ok") =>
        /\ \A v \in Range(path) : BloomFilter_query(bf, v)
        /\ current /= Unset =>
               \A v \in Range(graph[current]) :
                   nvisits[v] /= 0 => weight(Agent, current, v) = EPS

\* a Bloom agent has visited two vertices, one of them a neighbor of the
\* current vertex, and its filter still reports some vertex as new
C14_Witness ==
    /\ cls \in BloomKinds
    /\ status = "ok"
    /\ Cardinality(Range(path)) >= 2
    /\ \E v \in Range(graph[current]) : nvisits[v] /= 0
    /\ \E v \in DOMAIN graph : ~BloomFilter_query(bf, v)

\* C15: in HybridRW a neighbor v of the current vertex has the weight EPS if
\* and only if v is the previous vertex, or v is adjacent to the previous
\* vertex, or the filter reports v; with a path of one vertex only the filter
\* counts.
C15_HybridDiscouraged ==
    (cls = "HybridRW" /\ status = "ok" /\ current /= Unset) =>
        \A v \in Range(graph[current]) :
            weight(Agent, current, v) = EPS
                <=> \/ /\ Len(path) >= 2
                       /\ \/ v = path[Len(path) - 1]
                          \/ v \in Range(graph[path[Len(path) - 1]])
                   \/ BloomFilter_query(bf, v)

\* a HybridRW agent with a previous vertex has a neighbor that only the
\* adjacency to the previous vertex discourages, and one that nothing does
C15_Witness ==
    /\ cls = "HybridRW"
    /\ status = "ok"
    /\ Len(path) >= 2
    /\ \E v \in Range(graph[current]) :
           /\ v /= path[Len(path) - 1]
           /\ v \in Range(graph[path[Len(path) - 1]])
           /\ ~BloomFilter_query(bf, v)
           /\ weight(Agent, current, v) = EPS
    /\ \E v \in Range(graph[current]) : weight(Agent, current, v) > EPS

Min(m, n) == IF m <= n THEN m ELSE n

\* C16: the buffer of kHistory is the last min(hist_size, len(path)) entries
\* of path, in order and with repeats; it never holds more than hist_size.
C16_PlainIsPathSuffix ==
    (cls = "kHistory" /\ status = "ok") =>
        /\ history = LastN(path, Min(hist_size, Len(path)))
        /\ Len(history) <= hist_size

\* a kHistory agent has dropped its oldest entry and holds a vertex twice
C16_Witness ==
    /\ cls = "kHistory"
    /\ status = "ok"
    /\ hist_size >= 2
    /\ Len(path) > hist_size
    /\ Len(history) = hist_size
    /\ Cardinality(Range(history)) < Len(history)

\* the n most recently visited distinct vertices of path s
RECURSIVE Recent(_, _)
Recent(s, n) ==
    IF n = 0 \/ s = <<>> THEN {}
    ELSE {s[Len(s)]} \cup Recent(Without(SubSeq(s, 1, Len(s) - 1), s[Len(s)]), n - 1)

\* C17 as stated: the buffer of kHistory_FIFO holds exactly the
\* min(hist_size, ncovered) most recently visited distinct vertices of path.
C17_FifoIsMostRecentDistinct ==
    (cls = "kHistory_FIFO" /\ status = "ok") =>
        Range(history) = Recent(path, Min(hist_size, ncovered))

\* C17 amended: the buffer of kHistory_FIFO holds min(hist_size, ncovered)
\* pairwise distinct visited vertices, the current vertex among them when
\* hist_size >= 1, and all visited vertices while ncovered <= hist_size; a
\* vertex revisited while in the buffer is not moved to the recent end, so the
\* buffer holds the vertices most recently inserted, not most recently visited.
C17_FifoHoldsDistinctVisited ==
    (cls = "kHistory_FIFO" /\ status = "ok") =>
        /\ Len(history) = Min(hist_size, ncovered)
        /\ Cardinality(Range(history)) = Len(history)
        /\ Range(history) \subseteq Range(path)
        /\ (hist_size >= 1 /\ current /= Unset) => current \in Range(history)
        /\ ncovered <= hist_size => Range(history) = Range(path)

\* a kHistory_FIFO agent whose full buffer lacks one of the hist_size most
\* recently visited vertices, after a revisit
C17_Witness ==
    /\ cls = "kHistory_FIFO"
    /\ status = "ok"
    /\ hist_size >= 2
    /\ ncovered > hist_size
    /\ Len(path) > ncovered
    /\ Range(history) /= Recent(path, hist_size)

\* C18: with hist_size >= 1 the buffer of kHistory_FIFO and of kHistory_LRU
\* holds no vertex twice, holds at most hist_size entries, and holds the
\* current vertex.
C18_DedupBuffer ==
    (cls \in {"kHistory_FIFO", "kHistory_LRU"} /\ hist_size >= 1
        /\ status = "ok" /\ current /= Unset) =>
        /\ \A i, j \in DOMAIN history : history[i] = history[j] => i = j
        /\ Len(history) <= hist_size
        /\ \E i \in DOMAIN history : history[i] = current

\* a kHistory_LRU agent with a full buffer has visited more vertices than the
\* buffer holds, one of them more than once
C18_Witness ==
    /\ cls = "kHistory_LRU"
    /\ status = "ok"
    /\ hist_size >= 1
    /\ Len(history) = hist_size
    /\ ncovered > hist_size
    /\ Len(path) > ncovered

\* the number of occurrences of v in list s
Count(s, v) == Cardinality({i \in DOMAIN s : s[i] = v})

\* C19: in every class nvisits[v] is the number of occurrences of v in path,
\* and the history has received one update per move: one entry per move, up
\* to hist_size, for kHistory; no vertex twice and no more entries than
\* visited vertices for kHistory_FIFO and kHistory_LRU.
C19_BookkeepingOnce ==
    /\ \A v \in DOMAIN graph : nvisits[v] = Count(path, v)
    /\ cls = "kHistory" => Len(history) = Min(hist_size, Len(path))
    /\ cls \in {"kHistory_FIFO", "kHistory_LRU"} =>
           /\ \A v \in DOMAIN graph : Count(history, v) <= Min(1, nvisits[v])
           /\ Len(history) = Min(hist_size, ncovered)
    /\ cls \notin HistoryKinds => history = <<>>

\* a kHistory_LRU agent has come back to a vertex that was still in its
\* buffer of two entries
C19_Witness ==
    /\ cls = "kHistory_LRU"
    /\ status = "ok"
    /\ Len(history) >= 2
    /\ nvisits[current] >= 2
    /\ history[Len(history)] = current

\* C20: the graph staying as it is, every two consecutive entries of path are
\* the ends of an edge; for LZRW they may also be the same vertex.
C20_PathFollowsEdges ==
    \A i \in 1..(Len(path) - 1) :
        \/ path[i + 1] \in Range(graph[path[i]])
        \/ cls = "LZRW" /\ path[i + 1] = path[i]

\* a non-lazy agent has advanced twice, or an LZRW agent has stayed and moved
C20_Witness ==
    /\ status = "ok"
    /\ Len(path) >= 3
    /\ step = Len(path) - 1
    /\ \/ cls /= "LZRW"
       \/ \E i, j \in 1..(Len(path) - 1) : path[i + 1] = path[i] /\ path[j + 1] /= path[j]

\* ------------------------------------------- the driver's loop, unbounded
\* entries of path kept, from its end: prev_vertex() reads path[-2]
MaxKept == 2
\* step, nvisits[v] and hitting[v] are kept up to this value
MaxCount == 1

\* What the later calls of pick_next and the loop's test can read of agent a.
\* They read current, ncovered, the filter, the history, path[-2] and whether
\* nvisits[v] is 0; the older entries of path and the exact values of step,
\* nvisits and hitting only grow and are never read back, so they are kept up
\* to MaxKept entries and MaxCount, which lets the walk go on without bound.
Kept(a) ==
    [a EXCEPT !.path = LastN(@, Min(MaxKept, Len(@))),
              !.step = Min(@, MaxCount),
              !.nvisits = [v \in DOMAIN @ |-> Min(@[v], MaxCount)],
              !.hitting = [v \in DOMAIN @ |-> Min(@[v], MaxCount)]]

\* connected graphs with vertices 1..N
ConnectedGraphs == {PathGraph, KiteGraph}

\* SRW and the classes whose discouraged neighbors keep the weight EPS
CoverKinds == {"SRW"} \cup AvoidanceKinds

\* hash(str(v)) of the vertices of g: the same for all, or by parity
CoverDigests(g) ==
    {[v \in DOMAIN g |-> -3], [v \in DOMAIN g |-> IF v % 2 = 1 THEN -3 ELSE 4]}

\* agent = cls(graph=g, current=start_node, ...)
InitCover ==
    /\ cls \in CoverKinds
    /\ graph \in ConnectedGraphs
    /\ alpha = (IF cls = "SRW" THEN 0 ELSE -1)
    /\ laziness = 0
    /\ hist_size \in (IF cls \in HistoryKinds THEN 0..MaxHist ELSE {0})
    /\ digest \in (IF cls \in BloomKinds THEN CoverDigests(graph)
                   ELSE {[v \in DOMAIN graph |-> 0]})
    /\ status = "ok"
    /\ \E size \in (IF cls \in BloomKinds THEN 1..MaxBits ELSE {0}), start \in DOMAIN graph :
           Holds(SRW_init(New(graph, size), start))

\* while agent.ncovered < n_vertices: agent.advance()
LoopAdvance ==
    /\ status = "ok"
    /\ ncovered < Cardinality(DOMAIN graph)
    /\ \E v \in pick_next(Agent) \ {AssertionError} : Becomes(Kept(advance(Agent, v)))
    /\ UNCHANGED <<config, status>>

NextCover == LoopAdvance

\* The loop calls advance() as long as its test holds, and random.uniform gives
\* every neighbor of positive weight a positive probability at every visit: a
\* vertex that can be picked again and again is picked.
FairSpecCover ==
    /\ InitCover
    /\ [][NextCover]_vars
    /\ WF_vars(NextCover)
    /\ \A v \in 1..4 : SF_vars(LoopAdvance /\ current' = v)

\* C21: an advance() that ends with the AssertionError of pick_next leaves
\* current, path, step, nvisits, ncovered, hitting, the filter and the history
\* as they were before the call.
C21_FailedAdvanceChangesNothing ==
    [][(status = "ok" /\ status' = "AssertionError")
          => UNCHANGED <<current, path, step, nvisits, ncovered, hitting, bf, history>>]_vars

\* an agent with a history has walked, was moved to a vertex without
\* neighbors, and its advance() has failed there
C21_Witness ==
    /\ status = "AssertionError"
    /\ cls \in HistoryKinds
    /\ history /= <<>>
    /\ step >= 1
    /\ ncovered >= 2
    /\ graph[current] = <<>>

\* C22: on a connected graph with vertices 1..N the loop
\* 'while ncovered < N: advance()' ends under fair choice among neighbors, for
\* SRW and the avoidance classes: ncovered never decreases, never exceeds N
\* and eventually is N; then every vertex has an entry in hitting and the loop
\* makes no further step.
C22_LoopCovers ==
    /\ [][ncovered' >= ncovered /\ ncovered < Cardinality(DOMAIN graph)]_vars
    /\ [](ncovered <= Cardinality(DOMAIN graph))
    /\ [](ncovered = Cardinality(DOMAIN graph) => DOMAIN hitting = DOMAIN graph)
    /\ <>(ncovered = Cardinality(DOMAIN graph))

\* an avoidance agent has covered the kite graph with a last move from 3 to
\* 1: vertex 4 is only reached through 3, so the walk had come back to 3
C22_Witness ==
    /\ cls \in AvoidanceKinds
    /\ graph = KiteGraph
    /\ ncovered = Cardinality(DOMAIN graph)
    /\ current = 1
    /\ prev_vertex(Agent) = 3

====
